---- MODULE Spec2Model ----
(***************************************************************************)
(* cc-boss: the SQLite task queue (db.py), the RalphLoop worker            *)
(* (orchestrator.py), the diagnoser (runner.py), the run-result fold       *)
(* (models.py) and the plan manager (planner.py), as one state machine;    *)
(* next to it the runner's line loop (runner.py), the orchestrator's stop  *)
(* (orchestrator.py) and the WebSocket fan-out (web/ws.py, web/app.py),    *)
(* each with a specification of its own over the same variables.           *)
(*                                                                         *)
(* Every awaited SQL statement is one atomic step: aiosqlite runs the      *)
(* statements of the single shared connection one after the other, and a   *)
(* coroutine is suspended at each await, so other coroutines' statements   *)
(* can run between two statements of one call.                             *)
(*                                                                         *)
(* Text is a sequence of tokens (a token stands for a piece of text, "\n"  *)
(* for the newline); an optional value (None in the source) is <<>> and a  *)
(* present value v is <<v>>; an absent integer or timestamp is -1.         *)
(* Timestamps are readings of a counter; ISO-8601 strings of one clock     *)
(* compare as the readings do.                                             *)
(***************************************************************************)
EXTENDS Integers, Sequences, FiniteSets, TLC

\* ---------------------------------------------------------------- bounds
MaxWorkers == 2
MaxTasks == 2
MaxPrio == 1
MaxClock == 1
MaxEvents == 1
MaxCalls == 2
MaxReqs == 1
MaxServed == 2
MaxSockets == 2
MaxMsgs == 2
MaxLines == 3
MaxFold == 2
MaxMetric == 1

Workers == 0 .. (MaxWorkers - 1)
Reqs == 1 .. MaxReqs
Sockets == 1 .. MaxSockets

\* ------------------------------------------------------------- constants
SummaryChars == 200
SummaryErrors == 5
ErrorChars == 500
FixPriorityBoost == 1
ApprovePriorityBoost == 10

NoWorker == -1
NoTime == -1
None == << >>
Some(v) == << v >>
NoRow == [id |-> 0]

\* str(e) of what `except Exception as e` catches: an exception of the run
\* (spawn, stream, log_event, from_events) or one of append_progress
NoError == << >>
RunError == << "run error" >>
ProgressError == << "progress error" >>

TaskStatus == {"pending", "planning", "planned", "running", "done", "failed"}

VARIABLES
    tasks,            \* the tasks table: row id -> row (ids are 1..Len)
    clock,            \* what datetime.now() returns
    pc,               \* per worker: where it is in RalphLoop.run / next_pending
    row,              \* per worker: next_pending's local `task` (the selected row)
    task,             \* per worker: next_pending's return value / run's `task`
    current_task_id,  \* per worker: RalphLoop.current_task_id
    events,           \* per worker: run's local `events`
    ret,              \* per caller: the values its next_pending calls returned
    rpc,              \* per request: where a plan-manager call is
    rtask,            \* per request: the plan manager's local `task`
    served,           \* plan-API requests accepted so far
    exc,              \* per worker: str(e) of the exception `except` caught
    running,          \* per worker: RalphLoop.running
    handle,           \* per worker: the state of its asyncio task
    stopst,           \* where ParallelOrchestrator.stop is
    active,           \* ConnectionManager.active
    sock,             \* per socket: new, open, broken (send_text raises) or closed
    bc,               \* the broadcasts in flight, in the order they were created
    inbox,            \* per socket: the messages written to it
    lines,            \* the child's stdout, line by line
    pos,              \* the lines CCRunner.run has read
    yielded,          \* the events CCRunner.run has yielded
    raised,           \* CCRunner.run has raised
    fevents,          \* from_events' argument `events`
    fpos,             \* from_events: the events its loop has gone through
    cost,             \* from_events' local `cost`
    tin,              \* from_events' local `tin`
    tout,             \* from_events' local `tout`
    child,            \* per run: the child process (none, running, exited, reaped)
    run,              \* per run: where runner.run and its consumer are
    perr              \* per request: what the plan-manager call raised

stopVars == << running, handle, stopst >>
busVars == << active, sock, bc, inbox >>
runVars == << lines, pos, yielded, raised >>
foldVars == << fevents, fpos, cost, tin, tout >>
reapVars == << child, run >>
moreVars == << foldVars, reapVars, perr >>
auxVars == << stopVars, busVars, runVars, moreVars >>
coreVars == << tasks, clock, pc, row, task, current_task_id, events, ret, rpc, rtask, served, exc >>

vars == << coreVars, auxVars >>

\* ------------------------------------------------------------------ text
Min(a, b) == IF a < b THEN a ELSE b

\* s[:n]
Truncate(s, n) == SubSeq(s, 1, Min(n, Len(s)))

\* "\n".join(parts)
RECURSIVE JoinNL(_)
JoinNL(parts) ==
    IF Len(parts) = 0 THEN << >>
    ELSE IF Len(parts) = 1 THEN parts[1]
    ELSE parts[1] \o << "\n" >> \o JoinNL(Tail(parts))

\* needle in haystack (Python's substring test)
Contains(hay, needle) ==
    \E i \in 0 .. (Len(hay) - Len(needle)) :
        \A j \in 1 .. Len(needle) : hay[i + j] = needle[j]

\* ---------------------------------------------------------------- events
CCEvent(t, c, err) == [type |-> t, content |-> c, is_error |-> err]

EventKinds ==
    { CCEvent("assistant", << "step" >>, FALSE),
      CCEvent("assistant", << >>, FALSE),
      CCEvent("tool_result", << "boom" >>, TRUE) }

\* RunResult.from_events: text and errors
from_events(evs) ==
    LET IsText(e) == e.type = "assistant" /\ e.content # << >>
        IsErr(e) == e.is_error /\ e.content # << >>
        texts == SelectSeq(evs, IsText)
        errs == SelectSeq(evs, IsErr)
    IN [ text |-> JoinNL([i \in 1 .. Len(texts) |-> texts[i].content]),
         errors |-> [i \in 1 .. Len(errs) |-> errs[i].content],
         events |-> evs ]

\* CCMonitor.analyze
analyze(result) ==
    LET IsErr(e) == e.is_error
        errors == SelectSeq(result.events, IsErr)
        first == Truncate(errors, SummaryErrors)
        summary == JoinNL([i \in 1 .. Len(first) |-> Truncate(first[i].content, SummaryChars)])
    IN IF Len(errors) > 0
       THEN [ status |-> "needs_fix",
              error_summary |-> summary,
              fix_prompt |-> << "The previous task failed with these errors:", "\n", "\n" >>
                             \o summary
                             \o << "\n", "\n", "Please fix these issues." >> ]
       ELSE [ status |-> "ok", error_summary |-> << >>, fix_prompt |-> << >> ]

\* ----------------------------------------------------------------- store
NewTask(id, prompt, priority) ==
    [ id |-> id, prompt |-> prompt, status |-> "pending", priority |-> priority,
      worker_id |-> NoWorker, plan |-> None, result_summary |-> None,
      error |-> None, started_at |-> NoTime, finished_at |-> NoTime ]

\* Database.enqueue: INSERT
enqueue(ts, prompt, priority) == Append(ts, NewTask(Len(ts) + 1, prompt, priority))

Pending(ts) == { i \in DOMAIN ts : ts[i].status = "pending" }

\* mutant of SelectPending: ORDER BY priority ASC
SelectPending_LowestFirst(ts) ==
    IF Pending(ts) = {} THEN NoRow
    ELSE LET best == CHOOSE i \in Pending(ts) :
                  \A j \in Pending(ts) :
                      \/ ts[i].priority < ts[j].priority
                      \/ (ts[i].priority = ts[j].priority /\ i <= j)
         IN ts[best]

\* SELECT ... WHERE status = pending ORDER BY priority DESC, id ASC LIMIT 1
SelectPending(ts) ==
    IF Pending(ts) = {} THEN NoRow
    ELSE ts[CHOOSE i \in Pending(ts) :
               \A j \in Pending(ts) :
                   \/ ts[i].priority > ts[j].priority
                   \/ (ts[i].priority = ts[j].priority /\ i <= j)]

\* mutants of UpdateClaim: the WHERE clause without `AND status = ?`; the SET
\* clause without started_at; the SET clause without worker_id
UpdateClaim_Unconditional(ts, id, w, now) ==
    IF id \in DOMAIN ts
    THEN [ts EXCEPT ![id].status = "running", ![id].worker_id = w, ![id].started_at = now]
    ELSE ts

UpdateClaim_NoStamp(ts, id, w, now) ==
    IF id \in DOMAIN ts /\ ts[id].status = "pending"
    THEN [ts EXCEPT ![id].status = "running", ![id].worker_id = w]
    ELSE ts

UpdateClaim_NoOwner(ts, id, w, now) ==
    IF id \in DOMAIN ts /\ ts[id].status = "pending"
    THEN [ts EXCEPT ![id].status = "running", ![id].started_at = now]
    ELSE ts

\* UPDATE tasks SET status, worker_id, started_at WHERE id = ? AND status = pending
UpdateClaim(ts, id, w, now) ==
    IF id \in DOMAIN ts /\ ts[id].status = "pending"
    THEN [ts EXCEPT ![id].status = "running", ![id].worker_id = w, ![id].started_at = now]
    ELSE ts

\* Database.get_task
get_task(ts, id) == IF id \in DOMAIN ts THEN ts[id] ELSE NoRow

\* mutant of set_status: finished_at is written only for done
set_status_DoneOnly(ts, id, status, result_summary, error, now) ==
    IF id \in DOMAIN ts
    THEN [ts EXCEPT ![id].status = status,
                    ![id].result_summary = result_summary,
                    ![id].error = error,
                    ![id].finished_at = IF status = "done" THEN now ELSE NoTime]
    ELSE ts

\* Database.set_status: UPDATE ... WHERE id = ?
set_status(ts, id, status, result_summary, error, now) ==
    IF id \in DOMAIN ts
    THEN [ts EXCEPT ![id].status = status,
                    ![id].result_summary = result_summary,
                    ![id].error = error,
                    ![id].finished_at = IF status \in {"done", "failed"} THEN now ELSE NoTime]
    ELSE ts

\* Database.set_plan: UPDATE tasks SET plan, status = planned WHERE id = ?
set_plan(ts, id, plan) ==
    IF id \in DOMAIN ts
    THEN [ts EXCEPT ![id].plan = Some(plan), ![id].status = "planned"]
    ELSE ts

\* ------------------------------------------------------------------ init
\* the orchestrator after start(), an event bus without sockets, no child
StopInit ==
    /\ running = [w \in Workers |-> TRUE]
    /\ handle = [w \in Workers |-> "pending"]
    /\ stopst = "idle"

BusInit ==
    /\ active = << >>
    /\ sock = [s \in Sockets |-> "new"]
    /\ bc = << >>
    /\ inbox = [s \in Sockets |-> << >>]

\* from_events before its loop: cost = 0.0, tin = 0, tout = 0
FoldInit ==
    /\ fevents = << >>
    /\ fpos = 0
    /\ cost = 0
    /\ tin = 0
    /\ tout = 0

\* no run has started
ReapInit ==
    /\ child = [w \in Workers |-> "none"]
    /\ run = [w \in Workers |-> "idle"]

\* no plan-manager call has raised
NoCall == [call |-> "none", id |-> 0, raised |-> "none"]

PlanErrInit == perr = [r \in Reqs |-> NoCall]

MoreInit == FoldInit /\ ReapInit /\ PlanErrInit

\* no child has written anything
RunInit ==
    /\ lines = << >>
    /\ pos = 0
    /\ yielded = << >>
    /\ raised = FALSE

AuxInit == StopInit /\ BusInit /\ RunInit /\ MoreInit

CoreInit ==
    /\ tasks = << >>
    /\ clock = 0
    /\ pc = [w \in Workers |-> "claim"]
    /\ row = [w \in Workers |-> NoRow]
    /\ task = [w \in Workers |-> NoRow]
    /\ current_task_id = [w \in Workers |-> 0]
    /\ events = [w \in Workers |-> << >>]
    /\ ret = [w \in Workers |-> << >>]
    /\ rpc = [r \in Reqs |-> "idle"]
    /\ rtask = [r \in Reqs |-> NoRow]
    /\ served = 0
    /\ exc = [w \in Workers |-> NoError]

Init == CoreInit /\ AuxInit

\* datetime.now(): every reading is later than the one before it, until the
\* bound MaxClock, from where on all readings are equal
Advance == clock' = Min(clock + 1, MaxClock)

\* POST /api/tasks -> Database.enqueue
Enqueue ==
    /\ Len(tasks) < MaxTasks
    /\ \E p \in 0 .. MaxPrio : tasks' = enqueue(tasks, << "t" >>, p)
    /\ UNCHANGED << clock, pc, row, task, current_task_id, events, ret, rpc, rtask, served, exc, auxVars >>

\* ----------------------------------------------------- Database.next_pending
\* the SELECT, and the return None when there is no pending row
ClaimSelect(w) ==
    /\ pc[w] = "claim"
    /\ Len(ret[w]) < MaxCalls
    /\ LET r == SelectPending(tasks)
       IN /\ row' = [row EXCEPT ![w] = r]
          /\ IF r = NoRow
             THEN /\ task' = [task EXCEPT ![w] = NoRow]
                  /\ pc' = [pc EXCEPT ![w] = "ret"]
             ELSE /\ task' = task
                  /\ pc' = [pc EXCEPT ![w] = "update"]
    /\ UNCHANGED << tasks, clock, current_task_id, events, ret, rpc, rtask, served, exc, auxVars >>

\* the conditional UPDATE and its commit
ClaimUpdate(w) ==
    /\ pc[w] = "update"
    /\ tasks' = UpdateClaim(tasks, row[w].id, w, clock)
    /\ pc' = [pc EXCEPT ![w] = "reread"]
    /\ Advance
    /\ UNCHANGED << row, task, current_task_id, events, ret, rpc, rtask, served, exc, auxVars >>

\* mutant of ClaimReread: the re-fetch does not compare worker_id
ClaimReread_NoOwnerCheck(w) ==
    /\ pc[w] = "reread"
    /\ LET updated == get_task(tasks, row[w].id)
       IN task' = [task EXCEPT ![w] =
              IF updated # NoRow /\ updated.status = "running" THEN updated ELSE NoRow]
    /\ pc' = [pc EXCEPT ![w] = "ret"]
    /\ UNCHANGED << tasks, clock, row, current_task_id, events, ret, rpc, rtask, served, exc, auxVars >>

\* the re-fetch and the return
ClaimReread(w) ==
    /\ pc[w] = "reread"
    /\ LET updated == get_task(tasks, row[w].id)
       IN task' = [task EXCEPT ![w] =
              IF updated # NoRow /\ updated.status = "running" /\ updated.worker_id = w
              THEN updated ELSE NoRow]
    /\ pc' = [pc EXCEPT ![w] = "ret"]
    /\ UNCHANGED << tasks, clock, row, current_task_id, events, ret, rpc, rtask, served, exc, auxVars >>

\* a direct caller of next_pending (the tests): take the result, call again
CallReturn(w) ==
    /\ pc[w] = "ret"
    /\ ret' = [ret EXCEPT ![w] = Append(@, task[w].id)]
    /\ task' = [task EXCEPT ![w] = NoRow]
    /\ row' = [row EXCEPT ![w] = NoRow]
    /\ pc' = [pc EXCEPT ![w] = "claim"]
    /\ UNCHANGED << tasks, clock, current_task_id, events, rpc, rtask, served, exc, auxVars >>

\* ------------------------------------------------------------ RalphLoop.run
\* `if not task: await asyncio.sleep(2); continue`
WorkerSleep(w) ==
    /\ pc[w] = "ret"
    /\ task[w] = NoRow
    /\ row' = [row EXCEPT ![w] = NoRow]
    /\ pc' = [pc EXCEPT ![w] = "claim"]
    /\ UNCHANGED << tasks, clock, task, current_task_id, events, ret, rpc, rtask, served, exc, auxVars >>

\* self.current_task_id = task.id; events = []
WorkerPick(w) ==
    /\ pc[w] = "ret"
    /\ task[w] # NoRow
    /\ current_task_id' = [current_task_id EXCEPT ![w] = task[w].id]
    /\ events' = [events EXCEPT ![w] = << >>]
    /\ row' = [row EXCEPT ![w] = NoRow]
    /\ pc' = [pc EXCEPT ![w] = "stream"]
    /\ UNCHANGED << tasks, clock, task, ret, rpc, rtask, served, exc, auxVars >>

\* one turn of `async for event in self.runner.run(...)`: append, publish, log
WorkerEvent(w) ==
    /\ pc[w] = "stream"
    /\ Len(events[w]) < MaxEvents
    /\ \E e \in EventKinds : events' = [events EXCEPT ![w] = Append(@, e)]
    /\ UNCHANGED << tasks, clock, pc, row, task, current_task_id, ret, rpc, rtask, served, exc, auxVars >>

\* mutant of WorkerEventPublish: on_event awaits send_task_event, and the
\* worker stays suspended in it
WorkerEventPublish_Awaited(w) ==
    /\ pc[w] = "stream"
    /\ Len(events[w]) < MaxEvents
    /\ \E e \in EventKinds : events' = [events EXCEPT ![w] = Append(@, e)]
    /\ bc' = Append(bc, [msg |-> Len(bc) + 1, i |-> 0, cur |-> 0, dead |-> << >>,
                         st |-> "new", subs |-> { active[k] : k \in DOMAIN active }])
    /\ pc' = [pc EXCEPT ![w] = "publishing"]
    /\ UNCHANGED << tasks, clock, row, task, current_task_id, ret, rpc, rtask, served, exc,
                    stopVars, runVars, moreVars, active, sock, inbox >>

\* WorkerEvent with the event bus in view: events.append(event); on_event
\* creates the broadcast coroutine with ensure_future and returns; log_event
WorkerEventPublish(w) ==
    /\ pc[w] = "stream"
    /\ Len(events[w]) < MaxEvents
    /\ \E e \in EventKinds : events' = [events EXCEPT ![w] = Append(@, e)]
    /\ bc' = Append(bc, [msg |-> Len(bc) + 1, i |-> 0, cur |-> 0, dead |-> << >>,
                         st |-> "new", subs |-> { active[k] : k \in DOMAIN active }])
    /\ UNCHANGED << tasks, clock, pc, row, task, current_task_id, ret, rpc, rtask, served, exc,
                    stopVars, runVars, moreVars, active, sock, inbox >>

\* the spawn, the iteration, log_event or from_events raises: control goes to
\* `except` with the exception e
WorkerRaise(w) ==
    /\ pc[w] = "stream"
    /\ pc' = [pc EXCEPT ![w] = "except"]
    /\ exc' = [exc EXCEPT ![w] = RunError]
    /\ UNCHANGED << tasks, clock, row, task, current_task_id, events, ret, rpc, rtask, served, auxVars >>

\* mutant of WorkerSettle: a stream that ended without any event is not settled
WorkerSettle_OnlyWithEvents(w) ==
    /\ pc[w] = "stream"
    /\ LET result == from_events(events[w])
           diagnosis == analyze(result)
       IN IF events[w] = << >>
          THEN /\ tasks' = tasks
               /\ pc' = [pc EXCEPT ![w] = "progress"]
          ELSE IF diagnosis.status = "needs_fix"
          THEN /\ tasks' = set_status(tasks, task[w].id, "failed", None,
                                      Some(Truncate(diagnosis.error_summary, ErrorChars)), clock)
               /\ pc' = [pc EXCEPT ![w] = "fanout"]
          ELSE /\ tasks' = set_status(tasks, task[w].id, "done",
                                      Some(Truncate(result.text, ErrorChars)), None, clock)
               /\ pc' = [pc EXCEPT ![w] = "progress"]
    /\ Advance
    /\ UNCHANGED << row, task, current_task_id, events, ret, rpc, rtask, served, exc, auxVars >>

\* the stream ends; from_events, analyze, and the set_status of either branch
WorkerSettle(w) ==
    /\ pc[w] = "stream"
    /\ LET result == from_events(events[w])
           diagnosis == analyze(result)
       IN IF diagnosis.status = "needs_fix"
          THEN /\ tasks' = set_status(tasks, task[w].id, "failed", None,
                                      Some(Truncate(diagnosis.error_summary, ErrorChars)), clock)
               /\ pc' = [pc EXCEPT ![w] = "fanout"]
          ELSE /\ tasks' = set_status(tasks, task[w].id, "done",
                                      Some(Truncate(result.text, ErrorChars)), None, clock)
               /\ pc' = [pc EXCEPT ![w] = "progress"]
    /\ Advance
    /\ UNCHANGED << row, task, current_task_id, events, ret, rpc, rtask, served, exc, auxVars >>

\* mutant of WorkerFanOut: the fix task gets the failed task's priority
WorkerFanOut_SamePriority(w) ==
    /\ pc[w] = "fanout"
    /\ Len(tasks) < MaxTasks
    /\ tasks' = enqueue(tasks, analyze(from_events(events[w])).fix_prompt, task[w].priority)
    /\ pc' = [pc EXCEPT ![w] = "progress"]
    /\ UNCHANGED << clock, row, task, current_task_id, events, ret, rpc, rtask, served, exc, auxVars >>

\* `await self.db.enqueue(diagnosis.fix_prompt, priority=task.priority + 1)`
WorkerFanOut(w) ==
    /\ pc[w] = "fanout"
    /\ Len(tasks) < MaxTasks
    /\ tasks' = enqueue(tasks, analyze(from_events(events[w])).fix_prompt,
                        task[w].priority + FixPriorityBoost)
    /\ pc' = [pc EXCEPT ![w] = "progress"]
    /\ UNCHANGED << clock, row, task, current_task_id, events, ret, rpc, rtask, served, exc, auxVars >>

\* `finally: self.current_task_id = None`, and back to the top of the loop
EndOfTurn(w) ==
    /\ current_task_id' = [current_task_id EXCEPT ![w] = 0]
    /\ task' = [task EXCEPT ![w] = NoRow]
    /\ events' = [events EXCEPT ![w] = << >>]
    /\ pc' = [pc EXCEPT ![w] = "claim"]
    /\ exc' = [exc EXCEPT ![w] = NoError]

\* append_progress writes the file
WorkerProgress(w) ==
    /\ pc[w] = "progress"
    /\ EndOfTurn(w)
    /\ UNCHANGED << tasks, clock, row, ret, rpc, rtask, served, auxVars >>

\* append_progress raises (the file cannot be written): control goes to `except`
WorkerProgressFail(w) ==
    /\ pc[w] = "progress"
    /\ pc' = [pc EXCEPT ![w] = "except"]
    /\ exc' = [exc EXCEPT ![w] = ProgressError]
    /\ UNCHANGED << tasks, clock, row, task, current_task_id, events, ret, rpc, rtask, served, auxVars >>

\* mutant of WorkerExcept: the handler ends the turn without set_status
WorkerExcept_NoSettle(w) ==
    /\ pc[w] = "except"
    /\ EndOfTurn(w)
    /\ UNCHANGED << tasks, clock, row, ret, rpc, rtask, served, auxVars >>

\* `except Exception as e: set_status(task.id, failed, error=str(e)[:500])`
WorkerExcept(w) ==
    /\ pc[w] = "except"
    /\ tasks' = set_status(tasks, task[w].id, "failed", None,
                           Some(Truncate(exc[w], ErrorChars)), clock)
    /\ EndOfTurn(w)
    /\ Advance
    /\ UNCHANGED << row, ret, rpc, rtask, served, auxVars >>

\* ------------------------------------------------------------- PlanManager
PlanPlaceholder == << "No plan generated." >>

\* mutant of PlanText: the run's text as it is
PlanText_Raw(result) == result.text

\* `result.text or "No plan generated."`
PlanText(result) == IF result.text # << >> THEN result.text ELSE PlanPlaceholder

\* approve's exec_prompt
ExecPrompt(plan, prompt) ==
    << "Execute this approved plan:", "\n", "\n" >> \o plan
        \o << "\n", "\n", "Original task: " >> \o prompt

\* the fields of its local `task` a plan-manager call reads after its next await
Kept(t) == [id |-> t.id, prompt |-> t.prompt, priority |-> t.priority, plan |-> t.plan]

\* create_plan: get_task (an unknown id raises)
CreatePlanGet(r) ==
    /\ rpc[r] = "idle"
    /\ served < MaxServed
    /\ served' = served + 1
    /\ \E id \in DOMAIN tasks :
        /\ rtask' = [rtask EXCEPT ![r] = Kept(get_task(tasks, id))]
        /\ rpc' = [rpc EXCEPT ![r] = "cp_status"]
    /\ UNCHANGED << tasks, clock, pc, row, task, current_task_id, events, ret, exc, auxVars >>

\* create_plan: set_status(task_id, planning)
CreatePlanStatus(r) ==
    /\ rpc[r] = "cp_status"
    /\ tasks' = set_status(tasks, rtask[r].id, "planning", None, None, clock)
    /\ rpc' = [rpc EXCEPT ![r] = "cp_run"]
    /\ Advance
    /\ UNCHANGED << pc, row, task, current_task_id, events, ret, rtask, served, exc, auxVars >>

\* create_plan: the run ends with some events; from_events; set_plan
CreatePlanSetPlan(r) ==
    /\ rpc[r] = "cp_run"
    /\ \E n \in 0 .. MaxEvents : \E evs \in [1 .. n -> EventKinds] :
        tasks' = set_plan(tasks, rtask[r].id, PlanText(from_events(evs)))
    /\ rpc' = [rpc EXCEPT ![r] = "idle"]
    /\ rtask' = [rtask EXCEPT ![r] = NoRow]
    /\ UNCHANGED << clock, pc, row, task, current_task_id, events, ret, served, exc, auxVars >>

\* approve: get_task; `if not task or not task.plan: raise`
ApproveGet(r) ==
    /\ rpc[r] = "idle"
    /\ served < MaxServed
    /\ served' = served + 1
    /\ \E id \in DOMAIN tasks :
        /\ get_task(tasks, id).plan \notin { None, Some(<< >>) }
        /\ rtask' = [rtask EXCEPT ![r] = Kept(get_task(tasks, id))]
        /\ rpc' = [rpc EXCEPT ![r] = "ap_enqueue"]
    /\ UNCHANGED << tasks, clock, pc, row, task, current_task_id, events, ret, exc, auxVars >>

\* mutant of ApproveEnqueue: the execution task gets the fix-task boost
ApproveEnqueue_FixBoost(r) ==
    /\ rpc[r] = "ap_enqueue"
    /\ Len(tasks) < MaxTasks
    /\ tasks' = enqueue(tasks, ExecPrompt(rtask[r].plan[1], rtask[r].prompt),
                        rtask[r].priority + FixPriorityBoost)
    /\ rpc' = [rpc EXCEPT ![r] = "ap_status"]
    /\ UNCHANGED << clock, pc, row, task, current_task_id, events, ret, rtask, served, exc, auxVars >>

\* approve: enqueue(exec_prompt, priority=task.priority + 10)
ApproveEnqueue(r) ==
    /\ rpc[r] = "ap_enqueue"
    /\ Len(tasks) < MaxTasks
    /\ tasks' = enqueue(tasks, ExecPrompt(rtask[r].plan[1], rtask[r].prompt),
                        rtask[r].priority + ApprovePriorityBoost)
    /\ rpc' = [rpc EXCEPT ![r] = "ap_status"]
    /\ UNCHANGED << clock, pc, row, task, current_task_id, events, ret, rtask, served, exc, auxVars >>

\* approve: set_status(task_id, done, result_summary=...)
ApproveStatus(r) ==
    /\ rpc[r] = "ap_status"
    /\ tasks' = set_status(tasks, rtask[r].id, "done",
                           Some(<< "Plan approved and enqueued for execution" >>), None, clock)
    /\ rpc' = [rpc EXCEPT ![r] = "idle"]
    /\ rtask' = [rtask EXCEPT ![r] = NoRow]
    /\ Advance
    /\ UNCHANGED << pc, row, task, current_task_id, events, ret, served, exc, auxVars >>

\* mutant of Reject: the task is settled without the error text
Reject_NoError(r) ==
    /\ rpc[r] = "idle"
    /\ served < MaxServed
    /\ served' = served + 1
    /\ \E id \in DOMAIN tasks :
        tasks' = set_status(tasks, id, "failed", None, None, clock)
    /\ Advance
    /\ UNCHANGED << pc, row, task, current_task_id, events, ret, rpc, rtask, exc, auxVars >>

\* reject: set_status(task_id, failed, error="Plan rejected")
Reject(r) ==
    /\ rpc[r] = "idle"
    /\ served < MaxServed
    /\ served' = served + 1
    /\ \E id \in DOMAIN tasks :
        tasks' = set_status(tasks, id, "failed", None, Some(<< "Plan rejected" >>), clock)
    /\ Advance
    /\ UNCHANGED << pc, row, task, current_task_id, events, ret, rpc, rtask, exc, auxVars >>

\* ---- the Plan Manager calls with any task id, known or not ----
\* perr[r] records the last call of request r: which call, on which id, and
\* what it raised ("none": it went on or returned)
CallIds == 1 .. (MaxTasks + 1)

Called(call, id, err) == [call |-> call, id |-> id, raised |-> err]

\* create_plan: get_task; `if not task: raise ValueError`
CreatePlanCall(r) ==
    /\ rpc[r] = "idle"
    /\ \E id \in CallIds :
        LET t == get_task(tasks, id)
        IN IF t = NoRow
           THEN /\ perr' = [perr EXCEPT ![r] = Called("create_plan", id, "ValueError")]
                /\ UNCHANGED << rpc, rtask >>
           ELSE /\ perr' = [perr EXCEPT ![r] = Called("create_plan", id, "none")]
                /\ rtask' = [rtask EXCEPT ![r] = Kept(t)]
                /\ rpc' = [rpc EXCEPT ![r] = "cp_status"]
    /\ UNCHANGED << clock, pc, row, task, current_task_id, events, ret, served, exc,
                    stopVars, busVars, runVars, foldVars, reapVars, tasks >>

\* mutant of ApproveCall: a call that cannot apply returns without an error
ApproveCall_Silent(r) ==
    /\ rpc[r] = "idle"
    /\ \E id \in CallIds :
        LET t == get_task(tasks, id)
        IN IF t = NoRow \/ t.plan \in { None, Some(<< >>) }
           THEN /\ perr' = [perr EXCEPT ![r] = Called("approve", id, "none")]
                /\ UNCHANGED << rpc, rtask >>
           ELSE /\ perr' = [perr EXCEPT ![r] = Called("approve", id, "none")]
                /\ rtask' = [rtask EXCEPT ![r] = Kept(t)]
                /\ rpc' = [rpc EXCEPT ![r] = "ap_enqueue"]
    /\ UNCHANGED << clock, pc, row, task, current_task_id, events, ret, served, exc,
                    stopVars, busVars, runVars, foldVars, reapVars, tasks >>

\* approve: get_task; `if not task or not task.plan: raise ValueError`
ApproveCall(r) ==
    /\ rpc[r] = "idle"
    /\ \E id \in CallIds :
        LET t == get_task(tasks, id)
        IN IF t = NoRow \/ t.plan \in { None, Some(<< >>) }
           THEN /\ perr' = [perr EXCEPT ![r] = Called("approve", id, "ValueError")]
                /\ UNCHANGED << rpc, rtask >>
           ELSE /\ perr' = [perr EXCEPT ![r] = Called("approve", id, "none")]
                /\ rtask' = [rtask EXCEPT ![r] = Kept(t)]
                /\ rpc' = [rpc EXCEPT ![r] = "ap_enqueue"]
    /\ UNCHANGED << clock, pc, row, task, current_task_id, events, ret, served, exc,
                    stopVars, busVars, runVars, foldVars, reapVars, tasks >>

\* reject: set_status(task_id, failed, error="Plan rejected"), whatever the id
RejectCall(r) ==
    /\ rpc[r] = "idle"
    /\ \E id \in CallIds :
        /\ tasks' = set_status(tasks, id, "failed", None, Some(<< "Plan rejected" >>), clock)
        /\ perr' = [perr EXCEPT ![r] = Called("reject", id, "none")]
    /\ Advance
    /\ UNCHANGED << pc, row, task, current_task_id, events, ret, rpc, rtask, served, exc,
                    stopVars, busVars, runVars, foldVars, reapVars >>

\* ------------------------------------------------------------ CCRunner.run
\* A stdout line is a sequence of tokens: whitespace (a blank, the newline)
\* and at most one body. A body is text that is not JSON, bytes that are not
\* UTF-8, or a JSON document, whose value is an object (a dict) or something
\* else.
Blank == [kind |-> "blank"]
Newline == [kind |-> "newline"]
Whitespace == {Blank, Newline}

NotJson == [kind |-> "text"]
NotUtf8 == [kind |-> "bytes"]
Json(v) == [kind |-> "json", value |-> v]
Dict(d) == [t |-> "dict", d |-> d]
Number == [t |-> "int"]

\* the objects the child writes: an assistant text, a failed tool result, a
\* system event and an object without "type"
Objects ==
    { [type |-> "assistant", text |-> << "step" >>],
      [type |-> "tool_result", content |-> << "boom" >>, is_error |-> TRUE],
      [type |-> "system"],
      [subtype |-> "init"] }

Bodies == {NotJson, NotUtf8, Json(Number)} \cup { Json(Dict(d)) : d \in Objects }

StdoutLines ==
    { << Newline >>, << Blank, Newline >> }
        \cup { << b, Newline >> : b \in Bodies }
        \cup { << Blank, Json(Dict(d)), Blank, Newline >> : d \in {[type |-> "system"]} }

\* bytes.strip()
RECURSIVE lstrip(_)
lstrip(l) == IF l # << >> /\ Head(l) \in Whitespace THEN lstrip(Tail(l)) ELSE l

RECURSIVE rstrip(_)
rstrip(l) ==
    IF l # << >> /\ l[Len(l)] \in Whitespace THEN rstrip(SubSeq(l, 1, Len(l) - 1)) ELSE l

strip(l) == rstrip(lstrip(l))

\* json.loads(line) of a stripped, non-empty line: the value, or the exception
\* it raises (bytes are decoded as UTF-8 first)
loads(l) ==
    LET body == l[1]
    IN CASE body.kind = "json" -> [ok |-> TRUE, value |-> body.value]
         [] body.kind = "text" -> [ok |-> FALSE, exc |-> "JSONDecodeError"]
         [] body.kind = "bytes" -> [ok |-> FALSE, exc |-> "UnicodeDecodeError"]

\* data.get(key, default)
Get(d, key, default) == IF key \in DOMAIN d THEN d[key] ELSE default

\* CCEvent.parse_line for the event types of Objects; data.get on a value
\* that is not a dict raises AttributeError
parse_line(data) ==
    IF data.t # "dict" THEN [ok |-> FALSE, exc |-> "AttributeError"]
    ELSE LET d == data.d
             evt_type == Get(d, "type", "unknown")
             content == CASE evt_type = "assistant" -> Get(d, "text", << >>)
                          [] evt_type = "tool_result" -> Get(d, "content", << >>)
                          [] OTHER -> << >>
             is_error == IF evt_type = "tool_result" THEN Get(d, "is_error", FALSE) ELSE FALSE
         IN [ok |-> TRUE, value |-> CCEvent(evt_type, content, is_error)]

\* one turn of `async for line in proc.stdout`: strip; skip an empty line;
\* json.loads and parse_line; yield the event; `except json.JSONDecodeError:
\* continue`; any other exception leaves the generator
RunnerLine ==
    /\ ~raised
    /\ pos < Len(lines)
    /\ pos' = pos + 1
    /\ LET line == strip(lines[pos + 1])
       IN IF line = << >>
          THEN yielded' = yielded /\ raised' = FALSE
          ELSE LET data == loads(line)
               IN IF ~data.ok
                  THEN yielded' = yielded /\ raised' = (data.exc # "JSONDecodeError")
                  ELSE LET event == parse_line(data.value)
                       IN IF event.ok
                          THEN yielded' = Append(yielded, event.value) /\ raised' = FALSE
                          ELSE yielded' = yielded /\ raised' = TRUE
    /\ UNCHANGED << coreVars, moreVars, stopVars, busVars, lines >>

\* --------------------------------------------------- RunResult.from_events
\* the events of the fold: result events with each metric absent (None) or
\* present, and an event of another type
ResultEvent(c, i, o) ==
    [type |-> "result", cost_usd |-> c, tokens_in |-> i, tokens_out |-> o]

Metric == {None} \cup { Some(n) : n \in 0 .. MaxMetric }

FoldEvents ==
    { ResultEvent(c, i, o) : c \in Metric, i \in Metric, o \in Metric }
        \cup { [type |-> "assistant", cost_usd |-> None, tokens_in |-> None, tokens_out |-> None] }

\* Python's `v or old` for an optional number: None and 0 are both false
Or(v, old) == IF v # None /\ v[1] # 0 THEN v[1] ELSE old

\* one turn of `for e in events`, the part `if e.type == "result":`
FoldStep ==
    /\ fpos < Len(fevents)
    /\ fpos' = fpos + 1
    /\ LET e == fevents[fpos + 1]
       IN IF e.type = "result"
          THEN /\ cost' = Or(e.cost_usd, cost)
               /\ tin' = Or(e.tokens_in, tin)
               /\ tout' = Or(e.tokens_out, tout)
          ELSE UNCHANGED << cost, tin, tout >>
    /\ UNCHANGED << coreVars, stopVars, busVars, runVars, reapVars, perr, fevents >>

\* ------------------------------------------------ ParallelOrchestrator.stop
\* `for w in self.workers: w.stop()` and `for t in self._tasks: t.cancel()`,
\* which run without an await between them
StopSignal ==
    /\ stopst = "idle"
    /\ running' = [w \in Workers |-> FALSE]
    /\ handle' = [w \in Workers |-> IF handle[w] = "pending" THEN "cancelling" ELSE handle[w]]
    /\ stopst' = "gather"
    /\ UNCHANGED << coreVars, moreVars, busVars, runVars >>

\* CancelledError is raised at the await the worker is suspended at; it is
\* not an Exception, so only `finally: self.current_task_id = None` runs and
\* the asyncio task ends cancelled. The statement the worker was about to
\* run is not run. A worker suspended inside the runner (reading the
\* child's stdout) first runs the runner's `finally: await proc.wait()`.
WorkerCancelled(w) ==
    /\ handle[w] = "cancelling"
    /\ pc[w] \notin {"reap", "exited"}
    /\ current_task_id' = [current_task_id EXCEPT ![w] = 0]
    /\ \/ /\ pc' = [pc EXCEPT ![w] = "exited"]
          /\ handle' = [handle EXCEPT ![w] = "cancelled"]
       \/ /\ pc[w] = "stream"
          /\ pc' = [pc EXCEPT ![w] = "reap"]
          /\ handle' = handle
    /\ UNCHANGED << tasks, clock, row, task, events, ret, rpc, rtask, served, exc,
                    running, stopst, busVars, runVars, moreVars >>

\* the child exits: proc.wait() returns and the CancelledError goes on
WorkerReaped(w) ==
    /\ pc[w] = "reap"
    /\ pc' = [pc EXCEPT ![w] = "exited"]
    /\ handle' = [handle EXCEPT ![w] = "cancelled"]
    /\ UNCHANGED << tasks, clock, row, task, current_task_id, events, ret, rpc, rtask,
                    served, exc, running, stopst, busVars, runVars, moreVars >>

\* mutant of StopReturn: stop returns without awaiting the handles
StopReturn_NoGather ==
    /\ stopst = "gather"
    /\ stopst' = "returned"
    /\ UNCHANGED << coreVars, moreVars, running, handle, busVars, runVars >>

\* `await asyncio.gather(*self._tasks, return_exceptions=True)` returns
StopReturn ==
    /\ stopst = "gather"
    /\ \A w \in Workers : handle[w] \in {"cancelled", "finished"}
    /\ stopst' = "returned"
    /\ UNCHANGED << coreVars, moreVars, running, handle, busVars, runVars >>

\* ----------------------------------------------------- ConnectionManager
\* list.remove(x) after `if x in list`
Remove(list, x) == SelectSeq(list, LAMBDA y : y # x)

\* `for ws in dead: self.disconnect(ws)`
RECURSIVE RemoveAll(_, _)
RemoveAll(list, dead) ==
    IF dead = << >> THEN list ELSE RemoveAll(Remove(list, Head(dead)), Tail(dead))

Range(f) == { f[i] : i \in DOMAIN f }

\* GET /ws: connect accepts the socket and appends it
Connect(s) ==
    /\ sock[s] = "new"
    /\ sock' = [sock EXCEPT ![s] = "open"]
    /\ active' = Append(active, s)
    /\ UNCHANGED << coreVars, moreVars, stopVars, runVars, bc, inbox >>

\* the peer of an open socket goes away: from now on send_text raises
PeerGone(s) ==
    /\ sock[s] = "open"
    /\ sock' = [sock EXCEPT ![s] = "broken"]
    /\ UNCHANGED << coreVars, moreVars, stopVars, runVars, active, bc, inbox >>

\* websocket_endpoint: receive_text raises WebSocketDisconnect; disconnect
EndpointDisconnect(s) ==
    /\ sock[s] = "broken"
    /\ sock' = [sock EXCEPT ![s] = "closed"]
    /\ active' = Remove(active, s)
    /\ UNCHANGED << coreVars, moreVars, stopVars, runVars, bc, inbox >>

\* on_event: ensure_future(send_task_event(...)) for the next event of the
\* task; the broadcast coroutine is created and has not started. `subs` is
\* not in the source: it records who was subscribed at the publish.
Publish ==
    /\ Len(bc) < MaxMsgs
    /\ bc' = Append(bc, [msg |-> Len(bc) + 1, i |-> 0, cur |-> 0, dead |-> << >>,
                         st |-> "new", subs |-> Range(active)])
    /\ UNCHANGED << coreVars, moreVars, stopVars, runVars, active, sock, inbox >>

\* broadcast, from one suspension to the next, `dead` being the list after
\* the send that has just ended: the list iterator takes the item at its
\* index from the list as it is now and send_text hands the message to the
\* socket, where the coroutine is suspended; or the iterator is exhausted,
\* the dead sockets are removed and the broadcast ends.
Iterate(b, dead) ==
    /\ IF bc[b].i < Len(active)
       THEN LET ws == active[bc[b].i + 1]
            IN /\ bc' = [bc EXCEPT ![b].i = @ + 1, ![b].cur = ws,
                                   ![b].dead = dead, ![b].st = "sending"]
               /\ inbox' = IF sock[ws] = "open"
                            THEN [inbox EXCEPT ![ws] = Append(@, bc[b].msg)]
                            ELSE inbox
               /\ active' = active
       ELSE /\ bc' = [bc EXCEPT ![b].cur = 0, ![b].dead = dead, ![b].st = "done"]
            /\ active' = RemoveAll(active, dead)
            /\ inbox' = inbox
    /\ UNCHANGED << coreVars, moreVars, stopVars, runVars, sock >>

\* the event loop starts the coroutine; coroutines start in the order in
\* which ensure_future created them
BroadcastStart(b) ==
    /\ bc[b].st = "new"
    /\ \A a \in 1 .. (b - 1) : bc[a].st # "new"
    /\ Iterate(b, bc[b].dead)

\* the awaited send_text returns, or raises and the socket is appended to
\* `dead`; the loop goes on
BroadcastResume(b) ==
    /\ bc[b].st = "sending"
    /\ Iterate(b, IF sock[bc[b].cur] = "open" THEN bc[b].dead
                  ELSE Append(bc[b].dead, bc[b].cur))

\* ---------------------------------------------------------- specifications
Claim(w) == ClaimSelect(w) \/ ClaimUpdate(w) \/ ClaimReread(w)

Worker(w) ==
    \/ Claim(w)
    \/ WorkerSleep(w)
    \/ WorkerPick(w)
    \/ WorkerEvent(w)
    \/ WorkerRaise(w)
    \/ WorkerSettle(w)
    \/ WorkerFanOut(w)
    \/ WorkerProgress(w)
    \/ WorkerProgressFail(w)
    \/ WorkerExcept(w)

Plan(r) ==
    \/ CreatePlanGet(r)
    \/ CreatePlanStatus(r)
    \/ CreatePlanSetPlan(r)
    \/ ApproveGet(r)
    \/ ApproveEnqueue(r)
    \/ ApproveStatus(r)
    \/ Reject(r)

\* the whole program: workers, the task API and the plan API
Next ==
    \/ Enqueue
    \/ \E w \in Workers : Worker(w)
    \/ \E r \in Reqs : Plan(r)

Spec == Init /\ [][Next]_vars

\* the workers and the task API, no plan-manager call
NextWorkers ==
    \/ Enqueue
    \/ \E w \in Workers : Worker(w)

SpecWorkers == Init /\ [][NextWorkers]_vars

\* next_pending called directly by MaxWorkers concurrent callers on a store
\* that holds pending tasks and nothing else happening
InitClaim ==
    /\ \E n \in 1 .. MaxTasks : \E prio \in [1 .. n -> 0 .. MaxPrio] :
        tasks = [i \in 1 .. n |-> NewTask(i, << "t" >>, prio[i])]
    /\ clock = 0
    /\ pc = [w \in Workers |-> "claim"]
    /\ row = [w \in Workers |-> NoRow]
    /\ task = [w \in Workers |-> NoRow]
    /\ current_task_id = [w \in Workers |-> 0]
    /\ events = [w \in Workers |-> << >>]
    /\ ret = [w \in Workers |-> << >>]
    /\ rpc = [r \in Reqs |-> "idle"]
    /\ rtask = [r \in Reqs |-> NoRow]
    /\ served = 0
    /\ exc = [w \in Workers |-> NoError]
    /\ AuxInit

\* POST /api/tasks once the table has MaxTasks rows. The INSERT gives the new
\* row an id greater than every id in the table; the table keeps MaxTasks
\* rows by letting the new row take the place of the last one, which must be
\* settled and held by no coroutine (no statement reads it again), so the
\* new row is still the one with the greatest id.
EnqueueNext ==
    /\ Len(tasks) = MaxTasks
    /\ tasks[MaxTasks].status \in {"done", "failed"}
    /\ \A w \in Workers : task[w].id # MaxTasks /\ row[w].id # MaxTasks
    /\ \E p \in 0 .. MaxPrio :
        tasks' = [tasks EXCEPT ![MaxTasks] = NewTask(MaxTasks, << "t" >>, p)]
    /\ UNCHANGED << clock, pc, row, task, current_task_id, events, ret, rpc, rtask, served, exc, auxVars >>

\* the workers and a task API that never stops taking requests
NextArrivals ==
    \/ Enqueue
    \/ EnqueueNext
    \/ \E w \in Workers : Worker(w)

\* every worker that can take a step eventually takes one; requests arrive
\* at any rate
LiveArrivals ==
    Init /\ [][NextArrivals]_vars /\ \A w \in Workers : WF_vars(Worker(w))

\* the workers and the task API where every worker that can take a step
\* eventually takes one: the event loop runs every ready coroutine, every
\* awaited statement completes and every child's stdout ends
LiveWorkers == SpecWorkers /\ \A w \in Workers : WF_vars(Worker(w))

\* the event bus: sockets that connect and go away, publishes of the events
\* of one task in stdout order, and the broadcasts they start
NextBus ==
    \/ \E s \in Sockets : Connect(s) \/ PeerGone(s) \/ EndpointDisconnect(s)
    \/ Publish
    \/ \E b \in DOMAIN bc : BroadcastStart(b) \/ BroadcastResume(b)

SpecBus == Init /\ [][NextBus]_vars

\* the workers, the task API and one call of stop(); a worker whose task was
\* cancelled takes no step of its loop any more
NextStop ==
    \/ Enqueue
    \/ \E w \in Workers : handle[w] = "pending" /\ Worker(w)
    \/ \E w \in Workers : WorkerCancelled(w) \/ WorkerReaped(w)
    \/ StopSignal
    \/ StopReturn

SpecStop == Init /\ [][NextStop]_vars

\* the event loop delivers each cancellation and resumes stop() once the
\* gather is complete; the exit of an agent child is not the program's to
\* decide, so nothing is assumed of WorkerReaped
LiveStop ==
    /\ SpecStop
    /\ WF_vars(StopReturn)
    /\ \A w \in Workers : WF_vars(WorkerCancelled(w))

\* the runner alone, on every stdout of at most MaxLines lines
InitRunner ==
    /\ CoreInit
    /\ StopInit
    /\ BusInit
    /\ MoreInit
    /\ \E n \in 0 .. MaxLines : lines \in [1 .. n -> StdoutLines]
    /\ pos = 0
    /\ yielded = << >>
    /\ raised = FALSE

NextRunner == RunnerLine

SpecRunner == InitRunner /\ [][NextRunner]_vars

\* the fold alone, on every event sequence of at most MaxFold events
InitFold ==
    /\ CoreInit /\ StopInit /\ BusInit /\ RunInit /\ ReapInit /\ PlanErrInit
    /\ \E n \in 0 .. MaxFold : fevents \in [1 .. n -> FoldEvents]
    /\ fpos = 0
    /\ cost = 0
    /\ tin = 0
    /\ tout = 0

\* ---- CCRunner.run as the worker consumes it: the child and the generator ----
\* child[w]: "none", "running", "closed" (stdout closed, still running),
\*           "exited" (not yet waited for), "reaped" (proc.wait() returned)
\* run[w]:   "idle"; "reading" (suspended in `async for line in proc.stdout`);
\*           "yielded" (suspended at `yield`, the worker's loop body runs);
\*           "closing_end", "closing_raise", "closing_cancel" (suspended in
\*           `finally: await proc.wait()`, entered by the end of stdout, by an
\*           exception of the line processing, by CancelledError);
\*           "ended", "raised", "cancelled" (the generator has returned to the
\*           worker); "abandoned" (the worker has left its `async for`, the
\*           generator is still suspended at `yield`); "finalizing" (aclose(),
\*           scheduled by the event loop's asyncgen finalizer, is suspended in
\*           `finally: await proc.wait()`); "finalized"
Closing == {"closing_end", "closing_raise", "closing_cancel", "finalizing"}

\* the states in which the worker's `async for` over the run is over
RunOver == {"ended", "raised", "cancelled", "abandoned", "finalizing", "finalized"}

\* proc = await asyncio.create_subprocess_exec(...)
RunnerSpawn(w) ==
    /\ run[w] = "idle"
    /\ run' = [run EXCEPT ![w] = "reading"]
    /\ child' = [child EXCEPT ![w] = "running"]
    /\ UNCHANGED << coreVars, stopVars, busVars, runVars, foldVars, perr >>

\* the child closes its stdout and keeps running
ChildCloseStdout(w) ==
    /\ child[w] = "running"
    /\ child' = [child EXCEPT ![w] = "closed"]
    /\ UNCHANGED << coreVars, stopVars, busVars, runVars, foldVars, perr, run >>

\* the child exits; nothing in the program makes it exit
ChildExit(w) ==
    /\ child[w] \in {"running", "closed"}
    /\ child' = [child EXCEPT ![w] = "exited"]
    /\ UNCHANGED << coreVars, stopVars, busVars, runVars, foldVars, perr, run >>

\* a line is read, parsed and yielded to the worker
RunnerYield(w) ==
    /\ run[w] = "reading"
    /\ run' = [run EXCEPT ![w] = "yielded"]
    /\ UNCHANGED << coreVars, stopVars, busVars, runVars, foldVars, perr, child >>

\* strip, json.loads or parse_line raises something other than
\* JSONDecodeError: `finally` is entered with the exception pending
RunnerLineRaises(w) ==
    /\ run[w] = "reading"
    /\ run' = [run EXCEPT ![w] = "closing_raise"]
    /\ UNCHANGED << coreVars, stopVars, busVars, runVars, foldVars, perr, child >>

\* end of the child's stdout: the loop ends and `finally` is entered
RunnerStdoutEnd(w) ==
    /\ run[w] = "reading"
    /\ child[w] \in {"closed", "exited"}
    /\ run' = [run EXCEPT ![w] = "closing_end"]
    /\ UNCHANGED << coreVars, stopVars, busVars, runVars, foldVars, perr, child >>

\* the worker is cancelled while the generator reads: CancelledError is
\* raised at the read and `finally` is entered
ReaderCancelled(w) ==
    /\ run[w] = "reading"
    /\ run' = [run EXCEPT ![w] = "closing_cancel"]
    /\ UNCHANGED << coreVars, stopVars, busVars, runVars, foldVars, perr, child >>

\* the worker's loop body completes and asks for the next event
ConsumerNext(w) ==
    /\ run[w] = "yielded"
    /\ run' = [run EXCEPT ![w] = "reading"]
    /\ UNCHANGED << coreVars, stopVars, busVars, runVars, foldVars, perr, child >>

\* on_event or log_event raises in the worker's loop body: the worker leaves
\* the `async for` for its `except`; nothing closes the generator
ConsumerRaises(w) ==
    /\ run[w] = "yielded"
    /\ run' = [run EXCEPT ![w] = "abandoned"]
    /\ UNCHANGED << coreVars, stopVars, busVars, runVars, foldVars, perr, child >>

\* the worker is cancelled while it awaits log_event: CancelledError leaves
\* the `async for`; nothing closes the generator
ConsumerCancelled(w) ==
    /\ run[w] = "yielded"
    /\ run' = [run EXCEPT ![w] = "abandoned"]
    /\ UNCHANGED << coreVars, stopVars, busVars, runVars, foldVars, perr, child >>

\* the event loop's asyncgen finalizer runs aclose() on the abandoned
\* generator: GeneratorExit at `yield`, `finally` is entered
Finalize(w) ==
    /\ run[w] = "abandoned"
    /\ run' = [run EXCEPT ![w] = "finalizing"]
    /\ UNCHANGED << coreVars, stopVars, busVars, runVars, foldVars, perr, child >>

\* await proc.wait() returns once the child has exited
ProcWait(w) ==
    /\ run[w] \in Closing
    /\ child[w] = "exited"
    /\ child' = [child EXCEPT ![w] = "reaped"]
    /\ run' = [run EXCEPT ![w] = CASE run[w] = "closing_end" -> "ended"
                                    [] run[w] = "closing_raise" -> "raised"
                                    [] run[w] = "closing_cancel" -> "cancelled"
                                    [] OTHER -> "finalized"]
    /\ UNCHANGED << coreVars, stopVars, busVars, runVars, foldVars, perr >>

NextReap ==
    \E w \in Workers :
        \/ RunnerSpawn(w)
        \/ ChildCloseStdout(w)
        \/ ChildExit(w)
        \/ RunnerYield(w)
        \/ RunnerLineRaises(w)
        \/ RunnerStdoutEnd(w)
        \/ ReaderCancelled(w)
        \/ ConsumerNext(w)
        \/ ConsumerRaises(w)
        \/ ConsumerCancelled(w)
        \/ Finalize(w)
        \/ ProcWait(w)

SpecReap == Init /\ [][NextReap]_vars

PlanCalls(r) ==
    \/ CreatePlanCall(r)
    \/ CreatePlanStatus(r)
    \/ CreatePlanSetPlan(r)
    \/ ApproveCall(r)
    \/ ApproveEnqueue(r)
    \/ ApproveStatus(r)
    \/ RejectCall(r)

NextPlanCalls ==
    \/ Enqueue
    \/ \E r \in Reqs : PlanCalls(r)

SpecPlanCalls == Init /\ [][NextPlanCalls]_vars

NextFold == FoldStep

SpecFold == InitFold /\ [][NextFold]_vars

\* the workers with the event bus in view: every event a worker reads is
\* published
WorkerBus(w) ==
    \/ Claim(w)
    \/ WorkerSleep(w)
    \/ WorkerPick(w)
    \/ WorkerEventPublish(w)
    \/ WorkerRaise(w)
    \/ WorkerSettle(w)
    \/ WorkerFanOut(w)
    \/ WorkerProgress(w)
    \/ WorkerProgressFail(w)
    \/ WorkerExcept(w)

\* the application with its subscribers connected
InitPublish ==
    /\ CoreInit /\ StopInit /\ RunInit /\ MoreInit
    /\ active = [k \in 1 .. MaxSockets |-> k]
    /\ sock = [s \in Sockets |-> "open"]
    /\ bc = << >>
    /\ inbox = [s \in Sockets |-> << >>]

NextPublish ==
    \/ Enqueue
    \/ \E w \in Workers : WorkerBus(w)
    \/ \E b \in DOMAIN bc : BroadcastStart(b) \/ BroadcastResume(b)

\* every worker that can take a step eventually takes one; nothing is
\* assumed of the broadcasts: a send_text may never return
LivePublish ==
    InitPublish /\ [][NextPublish]_vars /\ \A w \in Workers : WF_vars(WorkerBus(w))

NextClaim ==
    \/ \E w \in Workers : Claim(w) \/ CallReturn(w)

SpecClaim == InitClaim /\ [][NextClaim]_vars

\* ================================================================ claims
Terminal == {"done", "failed"}

\* the ids next_pending has returned to caller w (0 is None)
Returned(w) ==
    ({ ret[w][i] : i \in 1 .. Len(ret[w]) }
        \cup (IF pc[w] = "ret" THEN { task[w].id } ELSE {})) \ {0}

\* the result of caller w's first call is known
FirstCallDone(w) == Len(ret[w]) >= 1

\* C1: two (or more) callers of next_pending never get the same task, a task
\* a caller got is owned by that caller in the store; and on a store holding
\* a single pending task, once every caller's first call has returned,
\* exactly one of them got the task and the others got None.
C1_OneWinner ==
    /\ \A w1, w2 \in Workers : w1 # w2 => Returned(w1) \cap Returned(w2) = {}
    /\ \A w \in Workers : \A t \in Returned(w) :
           tasks[t].status = "running" /\ tasks[t].worker_id = w
    /\ (Len(tasks) = 1 /\ \A w \in Workers : FirstCallDone(w))
           => Cardinality({ w \in Workers : ret[w][1] = 1 }) = 1

\* a caller that selected the only task and executed its UPDATE got None,
\* while another caller got the task
C1_Witness ==
    /\ Len(tasks) = 1
    /\ \E w1, w2 \in Workers :
        /\ w1 # w2
        /\ pc[w1] = "ret" /\ row[w1].id = 1 /\ task[w1] = NoRow
        /\ FirstCallDone(w2) /\ ret[w2][1] = 1

\* t is first in `ORDER BY priority DESC, id ASC` among the pending rows of ts
BestPending(ts, t) ==
    \A j \in DOMAIN ts :
        ts[j].status = "pending" =>
            \/ ts[t].priority > ts[j].priority
            \/ (ts[t].priority = ts[j].priority /\ t <= j)

\* C2: the task a claim reserves (the step that turns it from pending to
\* running) has the maximum priority among the tasks pending at that moment,
\* and the lowest id among those of that priority.
C2_ReservesBestPending ==
    [][\A t \in DOMAIN tasks :
          (tasks[t].status = "pending" /\ tasks'[t].status = "running")
              => BestPending(tasks, t)]_vars

\* C3 as stated: with two pending tasks, once both callers' first calls have
\* returned, both got a task, the ids differ, and every further call got None.
C3_BothGetATask ==
    (Len(tasks) = 2 /\ \A w \in Workers : FirstCallDone(w))
        => /\ \A w \in Workers : ret[w][1] # 0
           /\ \A w1, w2 \in Workers : w1 # w2 => ret[w1][1] # ret[w2][1]
           /\ \A w \in Workers : \A i \in 2 .. Len(ret[w]) : ret[w][i] = 0

\* C3 amended: with two pending tasks, no id is returned twice (to two
\* callers, or twice to one), at least one of the concurrent first calls
\* returns a task, and once both ids have been returned every further call
\* returns None (no id is returned twice); a call whose SELECT finds no row
\* ran when no task was pending.
C3_DistinctAndOneWins ==
    Len(tasks) = 2 =>
        /\ \A w1, w2 \in Workers : w1 # w2 => Returned(w1) \cap Returned(w2) = {}
        /\ \A w \in Workers : \A i, j \in 1 .. Len(ret[w]) :
               (i # j /\ ret[w][i] # 0) => ret[w][i] # ret[w][j]
        /\ (\A w \in Workers : FirstCallDone(w))
               => \E w \in Workers : ret[w][1] # 0
        /\ \A w \in Workers :
               (pc[w] = "ret" /\ row[w] = NoRow)
                   => \A t \in DOMAIN tasks : tasks[t].status # "pending"

\* the loser of the race for the first row returned None while the other
\* task was still pending
C3_Witness ==
    /\ Len(tasks) = 2
    /\ \E w1, w2 \in Workers :
        /\ w1 # w2
        /\ FirstCallDone(w1) /\ ret[w1][1] = 0
        /\ FirstCallDone(w2) /\ ret[w2][1] # 0
        /\ \E t \in DOMAIN tasks : tasks[t].status = "pending"

\* the edges of the lifecycle graph
LifecycleEdges ==
    { << "pending", "running" >>, << "running", "done" >>, << "running", "failed" >>,
      << "pending", "planning" >>, << "planning", "planned" >>,
      << "planned", "done" >>, << "planned", "failed" >> }

\* C4: every change of a task's status follows an edge of the lifecycle
\* graph, and a task never leaves done or failed.
C4_LifecycleOnly ==
    [][\A t \in DOMAIN tasks :
          tasks'[t].status # tasks[t].status
              => << tasks[t].status, tasks'[t].status >> \in LifecycleEdges]_vars

\* C5: a running task has worker_id and started_at set, and what a claim by
\* worker w returns is running, owned by w and has started_at set.
C5_RunningHasOwnerAndStart ==
    /\ \A t \in DOMAIN tasks :
           tasks[t].status = "running"
               => tasks[t].worker_id # NoWorker /\ tasks[t].started_at # NoTime
    /\ \A w \in Workers :
           (pc[w] = "ret" /\ task[w] # NoRow)
               => /\ task[w].status = "running"
                  /\ task[w].worker_id = w
                  /\ task[w].started_at # NoTime

\* a claim has just returned a task to a worker
C5_Witness ==
    \E w \in Workers :
        /\ pc[w] = "ret" /\ task[w] # NoRow
        /\ tasks[task[w].id].status = "running"

\* C6: a done or failed task has finished_at set, not earlier than its
\* started_at (when it was ever started).
C6_FinishedAfterStarted ==
    \A t \in DOMAIN tasks :
        tasks[t].status \in Terminal
            => /\ tasks[t].finished_at # NoTime
               /\ tasks[t].started_at # NoTime
                      => tasks[t].finished_at >= tasks[t].started_at

\* a claimed task was settled as failed, later than it was started
C6_Witness ==
    \E t \in DOMAIN tasks :
        /\ tasks[t].status = "failed"
        /\ tasks[t].started_at # NoTime
        /\ tasks[t].finished_at > tasks[t].started_at

\* C7 as stated: worker_id is set if and only if the status is running.
C7_OwnerIffRunning ==
    \A t \in DOMAIN tasks :
        tasks[t].worker_id # NoWorker <=> tasks[t].status = "running"

\* C7 amended: worker_id is set whenever the status is running and absent
\* while the task is pending (before the claim); it is set exactly when
\* started_at is, and once set it is never cleared or changed, so a settled
\* task keeps the id of the worker that claimed it.
C7_OwnerSetByClaimAndKept ==
    /\ [](\A t \in DOMAIN tasks :
            /\ tasks[t].status = "running" => tasks[t].worker_id # NoWorker
            /\ tasks[t].status = "pending" => tasks[t].worker_id = NoWorker
            /\ tasks[t].worker_id # NoWorker <=> tasks[t].started_at # NoTime)
    /\ [][\A t \in DOMAIN tasks :
            tasks[t].worker_id # NoWorker
                => tasks'[t].worker_id = tasks[t].worker_id]_vars

\* a task settled as done still carries its worker's id
C7_Witness ==
    \E t \in DOMAIN tasks :
        tasks[t].status = "done" /\ tasks[t].worker_id # NoWorker

\* C8: a planned task has a plan that is present and not empty.
C8_PlannedHasPlan ==
    \A t \in DOMAIN tasks :
        tasks[t].status = "planned"
            => tasks[t].plan # None /\ tasks[t].plan # Some(<< >>)

\* create_plan ended on a run without assistant text
C8_Witness ==
    \E t \in DOMAIN tasks :
        tasks[t].status = "planned" /\ tasks[t].plan = Some(PlanPlaceholder)

\* C9: once a task is done or failed, no later write changes what was
\* recorded for it.
C9_SettledOnce ==
    [][\A t \in DOMAIN tasks :
          tasks[t].status \in Terminal => tasks'[t] = tasks[t]]_vars

HasError(evs) == \E i \in 1 .. Len(evs) : evs[i].is_error

\* C10: when the stream of worker w's task ends, the worker's next write
\* settles the task as failed if some event has is_error and as done
\* otherwise, enqueuing nothing in that step; after failed its next step
\* enqueues one pending task of priority + 1 whose prompt contains the
\* error summary and every error's content; after done, and after that one
\* enqueue, the worker's turn enqueues nothing.
C10_FailedThenOneFixTask ==
    [][\A w \in Workers :
          LET id == task[w].id
              new == tasks'[Len(tasks')]
          IN /\ (pc[w] = "stream" /\ pc'[w] \notin {"stream", "except"})
                  => /\ Len(tasks') = Len(tasks)
                     /\ IF HasError(events[w])
                        THEN tasks'[id].status = "failed" /\ pc'[w] = "fanout"
                        ELSE tasks'[id].status = "done" /\ pc'[w] = "progress"
             /\ (pc[w] = "fanout" /\ pc'[w] # "fanout")
                  => /\ pc'[w] = "progress"
                     /\ HasError(events[w])
                     /\ Len(tasks') = Len(tasks) + 1
                     /\ SubSeq(tasks', 1, Len(tasks)) = tasks
                     /\ new.status = "pending"
                     /\ new.priority = tasks[id].priority + 1
                     /\ Contains(new.prompt, analyze(from_events(events[w])).error_summary)
                     /\ \A i \in 1 .. Len(events[w]) :
                            events[w][i].is_error => Contains(new.prompt, events[w][i].content)
             /\ (pc[w] \in {"progress", "except"} /\ pc'[w] # pc[w])
                  => Len(tasks') = Len(tasks)]_vars

\* a worker whose stream had an error has settled its task as failed and
\* enqueued the fix task
C10_Witness ==
    \E w \in Workers :
        /\ pc[w] = "progress" /\ HasError(events[w])
        /\ tasks[task[w].id].status = "failed"
        /\ tasks[Len(tasks)].status = "pending"
        /\ tasks[Len(tasks)].priority = task[w].priority + 1

\* C11: a step of worker w out of its stream goes to the settlement or, when
\* the run raises, to the except clause with the exception; the step of w
\* that leaves the except clause after a run exception records the task as
\* failed with the exception's text, clears current_task_id and puts the
\* worker back at the top of its loop, about to claim again.
C11_ExceptSettlesAndContinues ==
    [][\A w \in Workers :
          /\ (pc[w] = "stream" /\ pc'[w] \notin {"stream", "fanout", "progress"})
                => pc'[w] = "except" /\ exc'[w] = RunError
          /\ (pc[w] = "except" /\ exc[w] = RunError /\ pc'[w] # "except")
                => /\ tasks'[task[w].id].status = "failed"
                   /\ tasks'[task[w].id].error = Some(RunError)
                   /\ current_task_id'[w] = 0
                   /\ pc'[w] = "claim"]_vars

\* a worker whose earlier task was settled as failed by its except clause
\* after a run exception is handling another task
C11_Witness ==
    \E w \in Workers : \E t \in DOMAIN tasks :
        /\ tasks[t].status = "failed"
        /\ tasks[t].error = Some(RunError)
        /\ tasks[t].worker_id = w
        /\ current_task_id[w] \notin {0, t}

ApprovedSummary == << "Plan approved and enqueued for execution" >>

\* C14: the enqueue step of an approve call on task id adds exactly one row
\* to the table, pending, of the task's priority + 10, with a prompt that
\* contains the plan approve read and the task's prompt, and changes no
\* other row; the call's next and last step records task id as done with
\* the summary "Plan approved and enqueued for execution" and adds no row.
C14_ApproveEnqueuesOneAndSettles ==
    [][\A r \in Reqs :
          LET id == rtask[r].id
              new == tasks'[Len(tasks')]
          IN /\ (rpc[r] = "ap_enqueue" /\ rpc'[r] # "ap_enqueue")
                  => /\ rpc'[r] = "ap_status"
                     /\ Len(tasks') = Len(tasks) + 1
                     /\ SubSeq(tasks', 1, Len(tasks)) = tasks
                     /\ new.status = "pending"
                     /\ new.priority = tasks[id].priority + 10
                     /\ Contains(new.prompt, rtask[r].plan[1])
                     /\ Contains(new.prompt, tasks[id].prompt)
             /\ (rpc[r] = "ap_status" /\ rpc'[r] # "ap_status")
                  => /\ rpc'[r] = "idle"
                     /\ Len(tasks') = Len(tasks)
                     /\ tasks'[id].status = "done"
                     /\ tasks'[id].result_summary = Some(ApprovedSummary)
                     /\ \A t \in DOMAIN tasks : t # id => tasks'[t] = tasks[t]]_vars

\* an approved task, done with the summary, and its execution task pending
C14_Witness ==
    \E t \in DOMAIN tasks :
        /\ tasks[t].status = "done"
        /\ tasks[t].result_summary = Some(ApprovedSummary)
        /\ tasks[t].plan # None
        /\ t < Len(tasks)
        /\ tasks[Len(tasks)].status = "pending"
        /\ tasks[Len(tasks)].priority = tasks[t].priority + 10
        /\ Contains(tasks[Len(tasks)].prompt, tasks[t].plan[1])

\* a plan-API step that accepts a request and completes it at once: reject
IsRejectStep == served' # served /\ rpc' = rpc

\* C15: a reject call changes at most the row it names and adds none; when
\* that row was planned it becomes failed with the error "Plan rejected".
C15_RejectSettlesOnlyItsTask ==
    [][IsRejectStep =>
          /\ Len(tasks') = Len(tasks)
          /\ \E id \in DOMAIN tasks :
                /\ \A t \in DOMAIN tasks : t # id => tasks'[t] = tasks[t]
                /\ tasks'[id].status = "failed"
                /\ tasks'[id].error = Some(<< "Plan rejected" >>)
          /\ \A id \in DOMAIN tasks :
                tasks[id].status = "planned" /\ tasks'[id] # tasks[id]
                  => /\ tasks'[id].status = "failed"
                     /\ tasks'[id].error = Some(<< "Plan rejected" >>)
                     /\ tasks'[id].plan = tasks[id].plan]_vars

\* a task no worker ever claimed, planned by the first request and rejected
\* by the second
C15_Witness ==
    \E t \in DOMAIN tasks :
        /\ tasks[t].status = "failed"
        /\ tasks[t].error = Some(<< "Plan rejected" >>)
        /\ tasks[t].plan # None
        /\ tasks[t].worker_id = NoWorker
        /\ served = 2

\* C20: when append_progress raises after the task was settled, the
\* worker's next step leaves the task's row as it was written and takes the
\* worker back to the top of its loop.
C20_ProgressFailureKeepsOutcome ==
    [][\A w \in Workers :
          (pc[w] = "except" /\ exc[w] = ProgressError /\ pc'[w] # "except")
            => /\ tasks'[task[w].id] = tasks[task[w].id]
               /\ pc'[w] = "claim"]_vars

C13_PendingEventuallyClaimed ==
    \A t \in 1 .. MaxTasks :
        (t \in DOMAIN tasks /\ tasks[t].status = "pending")
            ~> (t \in DOMAIN tasks /\ tasks[t].worker_id # NoWorker)

\* C13, amended: a pending task does not stay first in the claim order
\* (highest priority, lowest id among the pending tasks) forever: some
\* worker claims it.
C13_FirstInOrderEventuallyClaimed ==
    \A t \in 1 .. MaxTasks :
        (t \in DOMAIN tasks /\ tasks[t].status = "pending" /\ BestPending(tasks, t))
            ~> \/ t \in DOMAIN tasks /\ tasks[t].status = "running"
               \/ t \in DOMAIN tasks /\ ~BestPending(tasks, t)

\* a task that was pending behind a task of higher priority has been claimed
\* after it
C13_Witness ==
    \E t, u \in DOMAIN tasks :
        /\ tasks[t].priority < tasks[u].priority
        /\ tasks[u].status \in Terminal
        /\ tasks[t].status = "running"
        /\ tasks[t].worker_id = tasks[u].worker_id

Delivered(s, b) == \E k \in DOMAIN inbox[s] : inbox[s][k] = bc[b].msg

\* C16: while the only removals from the subscriber list are those of
\* sockets whose send failed in a broadcast, a broadcast that has ended has
\* removed every socket whose send it saw fail, and every socket that was
\* subscribed when the message was published and is still open has received
\* the message.
C16_FailedSendSparesOthers ==
    (\A s \in Sockets : sock[s] # "closed") =>
        \A b \in DOMAIN bc :
            bc[b].st = "done" =>
                /\ \A k \in DOMAIN bc[b].dead : bc[b].dead[k] \notin Range(active)
                /\ \A s \in bc[b].subs : sock[s] = "open" => Delivered(s, b)

\* C17: every socket receives the messages of the task in the order of
\* their events.
C17_StdoutOrderPerSubscriber ==
    \A s \in Sockets : \A j, k \in DOMAIN inbox[s] :
        j < k => inbox[s][j] < inbox[s][k]

\* get_worker_status()'s `running` of every worker, and whether every
\* worker's asyncio task is done
NoneRunning == \A w \in Workers : ~running[w]
AllHandlesDone == \A w \in Workers : handle[w] \in {"cancelled", "finished"}

\* C18: in every state reached once stop() has returned, every worker
\* reports running = false and every worker's task is done; and from then on
\* no step turns a task into running or moves a worker.
C18_StoppedWorkersStayStopped ==
    [][/\ stopst' = "returned" => NoneRunning' /\ AllHandlesDone'
       /\ stopst = "returned" =>
             /\ pc' = pc
             /\ \A t \in DOMAIN tasks :
                   tasks'[t].status = "running" => tasks[t].status = "running"]_vars

\* stop() has returned while a task is pending and a worker was cancelled in
\* the middle of a task
C18_Witness ==
    /\ stopst = "returned"
    /\ \E t \in DOMAIN tasks : tasks[t].status = "pending"
    /\ \E t \in DOMAIN tasks : tasks[t].status = "running"

\* the line is empty after strip, or is not a JSON document
Undecodable(l) == strip(l) = << >> \/ strip(l)[1].kind # "json"

\* the events of the JSON objects among the lines ls, in order
RECURSIVE ObjectEvents(_)
ObjectEvents(ls) ==
    IF ls = << >> THEN << >>
    ELSE IF ~Undecodable(Head(ls)) /\ strip(Head(ls))[1].value.t = "dict"
         THEN << parse_line(strip(Head(ls))[1].value).value >> \o ObjectEvents(Tail(ls))
         ELSE ObjectEvents(Tail(ls))

\* C19: the runner does not raise at a line that is empty or is not valid
\* JSON, and as long as it has not raised the events it has yielded are those
\* of the decodable lines it has read, in stdout order.
C19_UndecodableLinesAreDropped ==
    /\ raised => ~Undecodable(lines[pos])
    /\ ~raised => yielded = ObjectEvents(SubSeq(lines, 1, pos))

\* the value of `field` carried by the most recent result event of evs that
\* has the field, zero when there is none
RECURSIVE LastCarried(_, _)
LastCarried(evs, field) ==
    IF evs = << >> THEN 0
    ELSE LET e == evs[Len(evs)]
         IN IF e.type = "result" /\ e[field] # None
            THEN e[field][1]
            ELSE LastCarried(SubSeq(evs, 1, Len(evs) - 1), field)

\* C21: after the fold has gone through a prefix of the events, cost, tin
\* and tout are the values carried by the most recent result event of the
\* prefix, a result event without a field leaving the earlier value, and are
\* zero when the prefix has no result event.
C21_MetricsOfLatestResult ==
    LET seen == SubSeq(fevents, 1, fpos)
    IN /\ cost = LastCarried(seen, "cost_usd")
       /\ tin = LastCarried(seen, "tokens_in")
       /\ tout = LastCarried(seen, "tokens_out")

\* C22: the set_plan step of a create_plan call changes the task's status
\* (to planned) only when the task is pending or planning at that moment.
C22_SetPlanOnlyFromPendingOrPlanning ==
    [][\A r \in Reqs :
          LET id == rtask[r].id
          IN (rpc[r] = "cp_run" /\ rpc'[r] # "cp_run"
                /\ tasks[id].status \notin {"pending", "planning"})
               => tasks'[id].status = tasks[id].status]_vars

\* C26: approve goes on to its enqueue only for a task that is planned, and
\* its enqueue step adds a row only while the task is still planned.
C26_ApproveOnlyPlanned ==
    [][\A r \in Reqs :
          /\ (rpc[r] = "idle" /\ rpc'[r] = "ap_enqueue")
                => tasks[rtask'[r].id].status = "planned"
          /\ (rpc[r] = "ap_enqueue" /\ Len(tasks') > Len(tasks))
                => tasks[rtask[r].id].status = "planned"]_vars

\* C27: no worker is running or holding a task that is planning or planned.
C27_NoWorkerOnPlanTask ==
    \A t \in DOMAIN tasks :
        tasks[t].status \in {"planning", "planned"}
            => \A w \in Workers : current_task_id[w] # t /\ task[w].id # t

\* how many times socket s was handed the message of broadcast b
Copies(s, b) == Cardinality({ k \in DOMAIN inbox[s] : inbox[s][k] = bc[b].msg })

\* C23: when a broadcast has ended, every socket that was subscribed when
\* its message was published and has stayed open has the message exactly
\* once, whatever connects, disconnects and removals of dead sockets
\* happened meanwhile.
C23_ExactlyOncePerLiveSubscriber ==
    \A b \in DOMAIN bc :
        bc[b].st = "done" =>
            \A s \in bc[b].subs : sock[s] = "open" => Copies(s, b) = 1

\* C24: a worker that has read and published an event of its task goes on
\* and settles the task (the settlement is written, or the turn that wrote
\* it has ended), whether or not the sends of the broadcasts ever complete.
C24_WorkerDoesNotWaitForSends ==
    \A w \in Workers :
        (events[w] # << >>)
            ~> \/ events[w] = << >>
               \/ task[w].id \in DOMAIN tasks /\ tasks[task[w].id].status \in Terminal

\* the worker that published the only event so far has ended its turn while
\* the broadcast is still suspended in a send
C24_Witness ==
    /\ Len(bc) = 1
    /\ bc[1].st = "sending"
    /\ \E t \in DOMAIN tasks : tasks[t].status \in Terminal
    /\ \A w \in Workers : pc[w] \notin {"stream", "fanout", "progress", "except"}

\* C25: whenever a worker's consumption of a run is over (end of stdout, the
\* worker leaving the sequence, an exception of the line processing,
\* cancellation), the child of that run has been waited for.
C25_ChildReapedBeforeRunFinishes ==
    \A w \in Workers : run[w] \in RunOver => child[w] = "reaped"

\* C28: once stop() has signalled and cancelled the workers and awaits
\* their handles, it eventually returns.
C28_StopEventuallyReturns ==
    (stopst = "gather") ~> (stopst = "returned")

\* the call of request r that this step starts cannot apply: create_plan on
\* an unknown id, approve on an unknown id or on a task without a plan
Refusable(c) ==
    \/ c.call \in {"create_plan", "approve"} /\ c.id \notin DOMAIN tasks
    \/ c.call = "approve" /\ c.id \in DOMAIN tasks
                          /\ tasks[c.id].plan \in { None, Some(<< >>) }

\* C29: a create_plan or approve call that cannot apply raises ValueError,
\* and it and a reject on an unknown id leave every task as it was and
\* enqueue nothing.
C29_RefusedCallsChangeNothing ==
    [][\A r \in Reqs :
          perr'[r] # perr[r] =>
              /\ Refusable(perr'[r]) => perr'[r].raised = "ValueError" /\ tasks' = tasks
              /\ perr'[r].call = "reject" /\ perr'[r].id \notin DOMAIN tasks
                    => tasks' = tasks]_vars

\* approve was refused on a task that exists and has no plan, after a reject
\* or a create_plan of an unknown id
C29_Witness ==
    \E r \in Reqs :
        /\ perr[r] = Called("approve", 1, "ValueError")
        /\ Len(tasks) = MaxTasks
        /\ tasks[1].plan = None

====
